---- MODULE Spec2Model ----
(***************************************************************************)
(* Model of cloudify/workflows/workflow_context.py: the workflow context,  *)
(* its node and relationship wrappers, operation routing, parameter merge  *)
(* and task envelope construction, and the lazily initialised logger.      *)
(*                                                                         *)
(* Python dicts are functions over a finite set of string keys.  A Python  *)
(* exception is an outcome record of kind "error" carrying the exception   *)
(* class.  Object references are records tagged with the Python class in   *)
(* field "kind", so that an attribute lookup on the wrong class fails as   *)
(* it does in Python.                                                      *)
(***************************************************************************)
EXTENDS Integers, Sequences, FiniteSets, TLC

VARIABLES
    plan,        \* ctx['plan']['nodes'] as a map node id -> raw node dict (shared with the wrappers)
    built,       \* the plan as it was when the context was constructed (history)
    context,     \* CloudifyWorkflowContext._context (deployment_id, blueprint_id, ...)
    call,        \* the arguments of the latest call
    ret,         \* what the latest call returned or raised
    task_ids,    \* number of uuid4 task ids generated so far
    dispatched,  \* number of tasks handed to celery.subtask / RemoteWorkflowTask
    ncalls,      \* number of calls made so far
    _logger,     \* CloudifyWorkflowContext._logger
    pc,          \* per thread: position inside the logger property
    got,         \* per thread: the value the logger property returned
    init_runs    \* number of times init_cloudify_logger ran for this context

vars == <<plan, built, context, call, ret, task_ids, dispatched, ncalls,
          _logger, pc, got, init_runs>>

(***************************************************************************)
(* Bounds                                                                  *)
(***************************************************************************)
MaxCalls == 2
NumThreads == 3

Threads == 1..NumThreads

(***************************************************************************)
(* Python dict primitives                                                  *)
(***************************************************************************)
EmptyDict == <<>>

\* d.get(k, default)
Get(d, k, default) == IF k \in DOMAIN d THEN d[k] ELSE default

\* d[k] = v
SetItem(d, k, v) == [x \in DOMAIN d \cup {k} |-> IF x = k THEN v ELSE d[x]]

\* d.pop(k, None)
Pop(d, k) == [x \in DOMAIN d \ {k} |-> d[x]]

\* d.update(e)
Update(d, e) == [x \in DOMAIN d \cup DOMAIN e |-> IF x \in DOMAIN e THEN e[x] ELSE d[x]]

(***************************************************************************)
(* Object references                                                       *)
(***************************************************************************)
None == [kind |-> "NoneType"]
TheContext == [kind |-> "CloudifyWorkflowContext"]
NodeWrapper(n) == [kind |-> "CloudifyWorkflowNode", id |-> n]
RawNode(n) == [kind |-> "dict", id |-> n]
RelationshipWrapper(n, i) == [kind |-> "CloudifyWorkflowRelationship", owner |-> n, index |-> i]

\* CloudifyWorkflowNode.__init__ builds each relationship wrapper as
\* CloudifyWorkflowRelationship(self, node, relationship): the wrapper's
\* ctx attribute is the node wrapper and its node attribute is the raw dict.
RelationshipCtx(n) == NodeWrapper(n)
RelationshipNode(n) == RawNode(n)

\* A reference to an operations table inside the plan.
NodeOperations(n) == [table |-> "operations", id |-> n, index |-> 0]
SourceOperations(n, i) == [table |-> "source_operations", id |-> n, index |-> i]
TargetOperations(n, i) == [table |-> "target_operations", id |-> n, index |-> i]

\* The dict an operations reference denotes in plan P; the relationship
\* tables are read with .get(name, {}).
OperationsAt(P, ref) ==
    IF ref.table = "operations"
    THEN P[ref.id]["operations"]
    ELSE Get(P[ref.id]["relationships"][ref.index], ref.table, EmptyDict)

\* P after op_struct['properties'][key] = value on the operation found through ref.
SetOperationProperty(P, ref, operation, key, value) ==
    LET ops == OperationsAt(P, ref)
        op_struct == ops[operation]
        ops2 == SetItem(ops, operation,
                    SetItem(op_struct, "properties",
                        SetItem(op_struct["properties"], key, value)))
        raw == P[ref.id]
        raw2 == IF ref.table = "operations"
                THEN SetItem(raw, "operations", ops2)
                ELSE SetItem(raw, "relationships",
                        [raw["relationships"] EXCEPT
                            ![ref.index] = SetItem(@, ref.table, ops2)])
    IN  [P EXCEPT ![ref.id] = raw2]

\* CloudifyWorkflowContext.get_node
get_node(P, node_id) == IF node_id \in DOMAIN P THEN NodeWrapper(node_id) ELSE None

\* CloudifyWorkflowNode.properties / .id / .name
NodeProperties(P, node) == Get(P[node.id], "properties", EmptyDict)
NodeId(P, node) == Get(P[node.id], "id", "None")
NodeName(P, node) == Get(P[node.id], "name", "None")

(***************************************************************************)
(* Outcomes of a call                                                      *)
(***************************************************************************)
\* What a call returned or raised.  kind is "NOP" (the tasks.NOP marker),
\* "task" (a RemoteWorkflowTask) or "error" (an exception reached the
\* caller).  merged tells whether _safe_update was called; dict1, dict2 and
\* result are its arguments and its return value.
Outcome(kind, error) ==
    [kind |-> kind, error |-> error, task_id |-> 0, queue |-> "",
     task_name |-> <<>>, kwargs |-> EmptyDict, context |-> EmptyDict,
     merged |-> FALSE, dict1 |-> EmptyDict, dict2 |-> EmptyDict,
     result |-> EmptyDict]

NoCall == Outcome("none", "")

(***************************************************************************)
(* _safe_update                                                            *)
(***************************************************************************)
RECURSIVE safe_update_loop(_, _, _)
\* The loop "for key, value in dict1.items()" over the keys still to visit.
safe_update_loop(dict1, keys, result) ==
    IF keys = {}
    THEN [raised |-> FALSE, result |-> result]
    ELSE LET key == CHOOSE k \in keys : TRUE
             value == dict1[key]
         IN  IF key = "cloudify_runtime"
             THEN LET r1 == IF key \notin DOMAIN result
                            THEN SetItem(result, key, EmptyDict)
                            ELSE result
                  IN  safe_update_loop(dict1, keys \ {key},
                          SetItem(r1, key, Update(r1[key], value)))
             ELSE IF key \in DOMAIN result
                  THEN [raised |-> TRUE, result |-> EmptyDict]
                  ELSE safe_update_loop(dict1, keys \ {key},
                           SetItem(result, key, value))

\* _safe_update written as a plain dict2.update(dict1): a shared key is
\* overwritten without complaint.
_safe_update_overwrite(dict1, dict2) ==
    [raised |-> FALSE, result |-> Update(dict2, dict1)]

\* _safe_update with the runtime sub-maps merged the other way round
\* (value updated with result[key]): dict2's entries win.
_safe_update_extra_wins(dict1, dict2) ==
    LET merged == safe_update_loop(dict1, DOMAIN dict1, dict2)
    IN  IF merged.raised \/ "cloudify_runtime" \notin DOMAIN dict1
        THEN merged
        ELSE [merged EXCEPT !.result =
                SetItem(merged.result, "cloudify_runtime",
                    Update(dict1["cloudify_runtime"],
                           Get(dict2, "cloudify_runtime", EmptyDict)))]

\* _safe_update(dict1, dict2): result starts as a deep copy of dict2.
_safe_update(dict1, dict2) == safe_update_loop(dict1, DOMAIN dict1, dict2)

(***************************************************************************)
(* _execute_operation and what it calls                                    *)
(***************************************************************************)
\* op_struct = operations[operation]: an absent name raises KeyError.
operations_getitem(operations, operation) ==
    IF operation \in DOMAIN operations
    THEN [raised |-> FALSE, is_none |-> FALSE, value |-> operations[operation]]
    ELSE [raised |-> TRUE, is_none |-> FALSE, value |-> EmptyDict]

\* op_struct = operations.get(operation)
operations_get(operations, operation) ==
    IF operation \in DOMAIN operations
    THEN [raised |-> FALSE, is_none |-> FALSE, value |-> operations[operation]]
    ELSE [raised |-> FALSE, is_none |-> TRUE, value |-> EmptyDict]

\* Queue selection with the two tests in the other order: manager_plugin
\* is looked at first.
select_task_queue_manager_first(raw_node, plugin_name, deployment) ==
    LET KeyError == [raised |-> TRUE, queue |-> ""]
        Queue(q) == [raised |-> FALSE, queue |-> q]
    IN  IF \/ "plugins" \notin DOMAIN raw_node
           \/ plugin_name \notin DOMAIN raw_node["plugins"]
           \/ "manager_plugin" \notin DOMAIN raw_node["plugins"][plugin_name]
        THEN KeyError
        ELSE IF raw_node["plugins"][plugin_name]["manager_plugin"] = "true"
             THEN Queue(deployment)
             ELSE IF "agent_plugin" \notin DOMAIN raw_node["plugins"][plugin_name]
                  THEN KeyError
                  ELSE IF raw_node["plugins"][plugin_name]["agent_plugin"] = "true"
                       THEN IF "host_id" \in DOMAIN raw_node
                            THEN Queue(raw_node["host_id"])
                            ELSE KeyError
                       ELSE Queue("cloudify.management")

\* Lines 180-184: the queue, or a KeyError from one of the subscripts.
select_task_queue(raw_node, plugin_name, deployment) ==
    LET KeyError == [raised |-> TRUE, queue |-> ""]
        Queue(q) == [raised |-> FALSE, queue |-> q]
    IN  IF \/ "plugins" \notin DOMAIN raw_node
           \/ plugin_name \notin DOMAIN raw_node["plugins"]
           \/ "agent_plugin" \notin DOMAIN raw_node["plugins"][plugin_name]
        THEN KeyError
        ELSE IF raw_node["plugins"][plugin_name]["agent_plugin"] = "true"
             THEN IF "host_id" \in DOMAIN raw_node
                  THEN Queue(raw_node["host_id"])
                  ELSE KeyError
             ELSE IF "manager_plugin" \notin DOMAIN raw_node["plugins"][plugin_name]
                  THEN KeyError
                  ELSE IF raw_node["plugins"][plugin_name]["manager_plugin"] = "true"
                       THEN Queue(deployment)
                       ELSE Queue("cloudify.management")

\* Lines 179 and 187-188 without the reset for a related node.
declared_properties_kept(op_struct, related_node) ==
    IF "properties" \in DOMAIN op_struct
    THEN [is_none |-> FALSE, shared |-> TRUE, value |-> op_struct["properties"]]
    ELSE [is_none |-> TRUE, shared |-> FALSE, value |-> EmptyDict]

\* Lines 179 and 187-188: op_struct.get('properties'), replaced by a fresh
\* empty dict when a related node is given.  shared tells whether the dict
\* is the one stored in the operation definition.
declared_properties(op_struct, related_node) ==
    IF related_node.kind # "NoneType"
    THEN [is_none |-> FALSE, shared |-> FALSE, value |-> EmptyDict]
    ELSE IF "properties" \in DOMAIN op_struct
         THEN [is_none |-> FALSE, shared |-> TRUE, value |-> op_struct["properties"]]
         ELSE [is_none |-> TRUE, shared |-> FALSE, value |-> EmptyDict]

\* Lines 199-202 without the pop of 'cloudify_runtime'.
sanitized_properties_runtime_kept(operation_properties) ==
    Pop(operation_properties, "__cloudify_id")

\* Lines 199, 201, 202: the copy of operation_properties put in the envelope.
sanitized_properties(operation_properties) ==
    Pop(Pop(operation_properties, "__cloudify_id"), "cloudify_runtime")

\* Lines 213-214: the copy of the related node's properties put in the envelope.
related_properties(properties) == Pop(properties, "cloudify_runtime")

\* _build_cloudify_context
_build_cloudify_context(ctx, task_id, task_queue, task_name, node_context) ==
    Update([__cloudify_context |-> "0.3",
            task_id |-> task_id,
            task_name |-> task_name,
            task_target |-> task_queue,
            blueprint_id |-> Get(ctx, "blueprint_id", "None"),
            deployment_id |-> Get(ctx, "deployment_id", "None"),
            execution_id |-> Get(ctx, "execution_id", "None"),
            workflow_id |-> Get(ctx, "workflow_id", "None")],
           node_context)

\* execute_task: task_id stands for str(uuid.uuid4()).
execute_task(ctx, task_id, task_queue, task_name, kwargs, node_context) ==
    LET cloudify_context ==
            _build_cloudify_context(ctx, task_id, task_queue, task_name, node_context)
    IN  [Outcome("task", "") EXCEPT
            !.task_id = task_id,
            !.queue = task_queue,
            !.task_name = task_name,
            !.kwargs = SetItem(kwargs, "__cloudify_context", cloudify_context),
            !.context = cloudify_context]

\* _execute_operation(operation, node, operations, related_node, kwargs) on
\* plan P, with operations given as a reference into P and task_id the next
\* uuid.  Returns the plan afterwards and the outcome.  An absent or empty
\* kwargs argument is the empty dict (kwargs = kwargs or {}).
_execute_operation(P, ctx, task_id, operation, node, ref, related_node, kwargs) ==
    IF node.kind # "CloudifyWorkflowNode"
    THEN [plan |-> P, out |-> Outcome("error", "AttributeError")]   \* node._node
    ELSE
    LET raw_node == P[node.id]
        found == operations_get(OperationsAt(P, ref), operation)
        op_struct == found.value
    IN
    IF found.raised THEN [plan |-> P, out |-> Outcome("error", "KeyError")]
    ELSE IF found.is_none THEN [plan |-> P, out |-> Outcome("NOP", "")]
    ELSE IF "plugin" \notin DOMAIN op_struct \/ "operation" \notin DOMAIN op_struct
    THEN [plan |-> P, out |-> Outcome("error", "KeyError")]
    ELSE
    LET plugin_name == op_struct["plugin"]
        operation_mapping == op_struct["operation"]
        selected == select_task_queue(raw_node, plugin_name,
                                      Get(ctx, "deployment_id", "None"))
        task_name == <<plugin_name, operation_mapping>>
    IN
    IF selected.raised THEN [plan |-> P, out |-> Outcome("error", "KeyError")]
    ELSE
    LET declared == declared_properties(op_struct, related_node)
        runtime == Get(NodeProperties(P, node), "cloudify_runtime", EmptyDict)
        operation_properties ==
            IF declared.is_none
            THEN NodeProperties(P, node)
            ELSE SetItem(declared.value, "cloudify_runtime", runtime)
        \* line 193 assigns into the dict held by the operation definition
        P2 == IF ~declared.is_none /\ declared.shared
              THEN SetOperationProperty(P, ref, operation, "cloudify_runtime", runtime)
              ELSE P
        merge == _safe_update(operation_properties, kwargs)
        Merged(o) == [o EXCEPT !.merged = TRUE, !.dict1 = operation_properties,
                               !.dict2 = kwargs, !.result = merge.result]
    IN
    IF merge.raised
    THEN [plan |-> P2, out |-> Merged(Outcome("error", "RuntimeError"))]
    ELSE
    LET task_kwargs == SetItem(merge.result, "__cloudify_id", NodeId(P2, node))
        node_context ==
            [node_id |-> NodeId(P2, node),
             node_name |-> NodeName(P2, node),
             node_properties |-> sanitized_properties(operation_properties),
             plugin |-> plugin_name,
             operation |-> operation,
             capabilities |-> Get(operation_properties, "cloudify_runtime", EmptyDict)]
    IN
    IF related_node.kind = "NoneType"
    THEN [plan |-> P2,
          out |-> Merged(execute_task(ctx, task_id, selected.queue, task_name,
                                      task_kwargs, node_context))]
    ELSE IF related_node.kind # "CloudifyWorkflowNode"
    THEN [plan |-> P2, out |-> Merged(Outcome("error", "AttributeError"))]  \* related_node.properties
    ELSE [plan |-> P2,
          out |-> Merged(execute_task(ctx, task_id, selected.queue, task_name,
                    task_kwargs,
                    SetItem(node_context, "related",
                        [node_id |-> NodeId(P2, related_node),
                         node_properties |->
                            related_properties(NodeProperties(P2, related_node))])))]

(***************************************************************************)
(* CloudifyWorkflowRelationship and CloudifyWorkflowNode entry points      *)
(***************************************************************************)
\* The body of execute_relationship_operation for relationship i of node n,
\* whose wrapper holds self_ctx as self.ctx and self_node as self.node.
relationship_operation(P, ctx, task_id, self_ctx, self_node, n, i, operation, run_on_source, kwargs) ==
    IF self_ctx.kind # "CloudifyWorkflowContext"
    THEN [plan |-> P, out |-> Outcome("error", "AttributeError")]   \* self.ctx.get_node
    ELSE
    LET target_node == get_node(P, Get(P[n]["relationships"][i], "target_id", "None"))
    IN  IF run_on_source
        THEN _execute_operation(P, ctx, task_id, operation, self_node,
                                SourceOperations(n, i), target_node, kwargs)
        ELSE _execute_operation(P, ctx, task_id, operation, target_node,
                                TargetOperations(n, i), RelationshipWrapper(n, i), kwargs)

\* execute_relationship_operation on a wrapper constructed the other way, as
\* CloudifyWorkflowRelationship(self.ctx, self, relationship): self.ctx is
\* the workflow context and self.node the node wrapper.
execute_relationship_operation_wired(P, ctx, task_id, n, i, operation, run_on_source, kwargs) ==
    relationship_operation(P, ctx, task_id, TheContext, NodeWrapper(n), n, i,
                           operation, run_on_source, kwargs)

\* CloudifyWorkflowRelationship.execute_relationship_operation on the wrapper
\* that CloudifyWorkflowNode.__init__ built.
execute_relationship_operation(P, ctx, task_id, n, i, operation, run_on_source, kwargs) ==
    relationship_operation(P, ctx, task_id, RelationshipCtx(n), RelationshipNode(n), n, i,
                           operation, run_on_source, kwargs)

\* CloudifyWorkflowNode.execute_operation
execute_operation(P, ctx, task_id, n, operation, kwargs) ==
    IF "operations" \notin DOMAIN P[n]
    THEN [plan |-> P, out |-> Outcome("error", "KeyError")]
    ELSE _execute_operation(P, ctx, task_id, operation, NodeWrapper(n),
                            NodeOperations(n), None, kwargs)

(***************************************************************************)
(* The deployments, callers' arguments and initial states                  *)
(***************************************************************************)
PluginMeta(agent, manager) == [agent_plugin |-> agent, manager_plugin |-> manager]

\* The plugins table of the acting node and whether the node has a host_id.
RoutingConfigs ==
    { [plugins |-> EmptyDict, host |-> TRUE],
      [plugins |-> [p1 |-> PluginMeta("true", "false")], host |-> TRUE],
      [plugins |-> [p1 |-> PluginMeta("true", "true")], host |-> TRUE],
      [plugins |-> [p1 |-> PluginMeta("true", "false")], host |-> FALSE],
      [plugins |-> [p1 |-> PluginMeta("false", "true")], host |-> TRUE],
      [plugins |-> [p1 |-> PluginMeta("false", "false")], host |-> TRUE] }

NodePropertySets ==
    { EmptyDict,
      [a |-> 1],
      [a |-> 1, cloudify_runtime |-> [x |-> 1]] }

\* An operation definition's 'properties', when it has the key.
DeclaredPropertySets ==
    { [b |-> 1],
      [b |-> 1, __cloudify_id |-> "stale", cloudify_runtime |-> [y |-> 1]] }

OpStructs ==
    { [plugin |-> "p1", operation |-> "m.f"] }
    \cup { [plugin |-> "p1", operation |-> "m.f", properties |-> d] :
           d \in DeclaredPropertySets }

KwargsSets ==
    { EmptyDict,
      [a |-> 2],
      [b |-> 2],
      [c |-> 2, cloudify_runtime |-> [x |-> 2, z |-> 2]] }

OperationNames == {"op1", "op2"}
TargetIds == {"n2", "nx"}

Relationship(target_id) ==
    [target_id |-> target_id,
     source_operations |-> [op1 |-> [plugin |-> "p1", operation |-> "m.src"]],
     target_operations |-> [op1 |-> [plugin |-> "p1", operation |-> "m.tgt",
                                     properties |-> [b |-> 1]]]]

\* A deployment of two nodes: n1 with one operation and one relationship,
\* n2 with no operations of its own.
Deployment(routing, properties, op_struct, target_id) ==
    LET n1 == [id |-> "n1", name |-> "node1", properties |-> properties,
               plugins |-> routing.plugins,
               operations |-> [op1 |-> op_struct],
               relationships |-> <<Relationship(target_id)>>]
        n2 == [id |-> "n2", name |-> "node2",
               properties |-> [b |-> 2, cloudify_runtime |-> [y |-> 2]],
               plugins |-> [p1 |-> PluginMeta("false", "true")],
               host_id |-> "h2",
               operations |-> EmptyDict,
               relationships |-> <<>>]
    IN  [n1 |-> IF routing.host THEN SetItem(n1, "host_id", "h1") ELSE n1,
         n2 |-> n2]

Deployments ==
    { Deployment(r, p, o, t) :
        r \in RoutingConfigs, p \in NodePropertySets, o \in OpStructs, t \in TargetIds }

NodeIds == {"n1", "n2"}

WorkflowContext(ids) ==
    [k \in {"deployment_id", "blueprint_id", "execution_id"} \cup ids |->
        CASE k = "deployment_id" -> "dep1"
          [] k = "blueprint_id" -> "bp1"
          [] k = "execution_id" -> "ex1"
          [] OTHER -> "wf1"]

NoArgs ==
    [api |-> "none", operation |-> "", node |-> None, operations |-> NodeOperations("n1"),
     related_node |-> None, kwargs |-> EmptyDict, run_on_source |-> TRUE]

LoggerUnset == [set |-> FALSE, name |-> ""]

\* CloudifyWorkflowContext.__init__: the node wrappers over the plan, _logger = None.
Init ==
    /\ plan \in Deployments
    /\ built = plan
    /\ context = WorkflowContext({"workflow_id"})
    /\ call = NoArgs
    /\ ret = NoCall
    /\ task_ids = 0
    /\ dispatched = 0
    /\ ncalls = 0
    /\ _logger = LoggerUnset
    /\ pc = [t \in Threads |-> "idle"]
    /\ got = [t \in Threads |-> LoggerUnset]
    /\ init_runs = 0

LoggerVars == <<_logger, pc, got, init_runs>>

\* The effect of a call with arguments args that ended as r on the state.
Returned(args, r) ==
    /\ ncalls < MaxCalls
    /\ call' = args
    /\ ret' = r.out
    /\ plan' = r.plan
    /\ task_ids' = IF r.out.kind = "task" THEN task_ids + 1 ELSE task_ids
    /\ dispatched' = IF r.out.kind = "task" THEN dispatched + 1 ELSE dispatched
    /\ ncalls' = ncalls + 1
    /\ UNCHANGED <<built, context, LoggerVars>>

\* node.execute_operation(operation, kwargs)
NodeExecuteOperation ==
    \E n \in NodeIds, operation \in OperationNames, kwargs \in KwargsSets :
        Returned([NoArgs EXCEPT !.api = "execute_operation", !.operation = operation,
                                !.node = NodeWrapper(n), !.operations = NodeOperations(n),
                                !.kwargs = kwargs],
                 execute_operation(plan, context, task_ids + 1, n, operation, kwargs))

\* ctx._execute_operation(operation, node, operations, related_node, kwargs)
\* called with the roles execute_relationship_operation assigns for
\* relationship i of node n whose target exists: the owner acting on
\* source_operations with the target as related node, or the target acting on
\* target_operations with the owner, or the relationship wrapper of line 57,
\* as related node.
ContextExecuteOperation ==
    \E n \in NodeIds, operation \in OperationNames, kwargs \in KwargsSets,
       run_on_source \in BOOLEAN :
      \E i \in DOMAIN plan[n]["relationships"] :
        LET target_node == get_node(plan, plan[n]["relationships"][i]["target_id"])
            node == IF run_on_source THEN NodeWrapper(n) ELSE target_node
            ref == IF run_on_source THEN SourceOperations(n, i) ELSE TargetOperations(n, i)
        IN  /\ target_node.kind = "CloudifyWorkflowNode"
            /\ \E related_node \in IF run_on_source
                                   THEN {target_node}
                                   ELSE {NodeWrapper(n), RelationshipWrapper(n, i)} :
                 Returned([NoArgs EXCEPT !.api = "_execute_operation",
                                         !.operation = operation,
                                         !.node = node, !.operations = ref,
                                         !.related_node = related_node,
                                         !.kwargs = kwargs,
                                         !.run_on_source = run_on_source],
                          _execute_operation(plan, context, task_ids + 1, operation,
                                             node, ref, related_node, kwargs))

\* relationship.execute_relationship_operation(operation, run_on_source, kwargs)
\* on the relationship of n1.
RelationshipExecuteOperation ==
    \E operation \in OperationNames, kwargs \in KwargsSets, run_on_source \in BOOLEAN :
        Returned([NoArgs EXCEPT !.api = "execute_relationship_operation",
                                !.operation = operation,
                                !.node = RelationshipWrapper("n1", 1),
                                !.operations = IF run_on_source
                                               THEN SourceOperations("n1", 1)
                                               ELSE TargetOperations("n1", 1),
                                !.kwargs = kwargs, !.run_on_source = run_on_source],
                 execute_relationship_operation(plan, context, task_ids + 1, "n1", 1,
                                                operation, run_on_source, kwargs))

Next ==
    \/ NodeExecuteOperation
    \/ ContextExecuteOperation
    \/ RelationshipExecuteOperation

Spec == Init /\ [][Next]_vars

(***************************************************************************)
(* The logger property, read by concurrent workflow steps                  *)
(***************************************************************************)
\* Lines 162-163: the name _init_cloudify_logger passes on.
logger_name(ctx) ==
    IF "workflow_id" \in DOMAIN ctx THEN ctx["workflow_id"] ELSE "cloudify_workflow"

\* cloudify.logs.init_cloudify_logger(ctx, handler_class, logger_name): it
\* leaves the logger it configured in ctx._logger.
init_cloudify_logger(name) == [set |-> TRUE, name |-> name]

\* Line 154: if self._logger is None
LoggerTest(t) ==
    /\ pc[t] = "idle"
    /\ pc' = [pc EXCEPT ![t] = IF _logger.set THEN "return" ELSE "init"]
    /\ UNCHANGED <<plan, built, context, call, ret, task_ids, dispatched, ncalls,
                   _logger, got, init_runs>>

\* Line 155: self._init_cloudify_logger()
LoggerInitialize(t) ==
    /\ pc[t] = "init"
    /\ _logger' = init_cloudify_logger(logger_name(context))
    /\ init_runs' = init_runs + 1
    /\ pc' = [pc EXCEPT ![t] = "return"]
    /\ UNCHANGED <<plan, built, context, call, ret, task_ids, dispatched, ncalls, got>>

\* Line 156: return self._logger
LoggerReturn(t) ==
    /\ pc[t] = "return"
    /\ got' = [got EXCEPT ![t] = _logger]
    /\ pc' = [pc EXCEPT ![t] = "done"]
    /\ UNCHANGED <<plan, built, context, call, ret, task_ids, dispatched, ncalls,
                   _logger, init_runs>>

\* A context whose workflow_id is set or absent, before any thread has read
\* the logger.
LoggerInit ==
    /\ plan = Deployment([plugins |-> EmptyDict, host |-> TRUE], EmptyDict,
                         [plugin |-> "p1", operation |-> "m.f"], "n2")
    /\ built = plan
    /\ context \in {WorkflowContext({"workflow_id"}), WorkflowContext({})}
    /\ call = NoArgs
    /\ ret = NoCall
    /\ task_ids = 0
    /\ dispatched = 0
    /\ ncalls = 0
    /\ _logger = LoggerUnset
    /\ pc = [t \in Threads |-> "idle"]
    /\ got = [t \in Threads |-> LoggerUnset]
    /\ init_runs = 0

LoggerNext ==
    \/ \E t \in Threads : LoggerTest(t)
    \/ \E t \in Threads : LoggerInitialize(t)
    \/ \E t \in Threads : LoggerReturn(t)

LoggerSpec == LoggerInit /\ [][LoggerNext]_vars

(***************************************************************************)
(* Properties                                                              *)
(***************************************************************************)
Runtime == "cloudify_runtime"

\* The latest call went through _execute_operation with a node wrapper.
Resolved == call.api \in {"execute_operation", "_execute_operation"}

\* The raw dict of the acting node of the latest call, its properties and
\* the operation definition the call names.
ActingRaw == plan[call.node.id]
ActingProperties == Get(ActingRaw, "properties", EmptyDict)
CalledTable == OperationsAt(built, call.operations)
Declared == call.operation \in DOMAIN CalledTable
CalledOpStruct == CalledTable[call.operation]
CalledPlugin == ActingRaw["plugins"][CalledOpStruct["plugin"]]

\* C1: every dispatched task goes to the queue chosen by precedence: the
\* acting node's host_id when the operation's plugin has agent_plugin 'true'
\* (whatever manager_plugin says), else the deployment id when manager_plugin
\* is 'true', else 'cloudify.management'; the envelope's task_target is that
\* same queue.
C1_QueuePrecedence ==
    (Resolved /\ ret.kind = "task") =>
        /\ ret.context["task_target"] = ret.queue
        /\ CalledPlugin["agent_plugin"] = "true" => ret.queue = ActingRaw["host_id"]
        /\ (CalledPlugin["agent_plugin"] # "true" /\ CalledPlugin["manager_plugin"] = "true")
               => ret.queue = context["deployment_id"]
        /\ (CalledPlugin["agent_plugin"] # "true" /\ CalledPlugin["manager_plugin"] # "true")
               => ret.queue = "cloudify.management"

\* A task was dispatched for a plugin flagged both agent and manager, and it
\* went to the host's queue.
C1_Witness ==
    /\ Resolved /\ ret.kind = "task"
    /\ CalledPlugin["agent_plugin"] = "true" /\ CalledPlugin["manager_plugin"] = "true"
    /\ ret.queue = "h1"

\* C2: a call of execute_operation or _execute_operation that names an
\* operation absent from the operations table returns NOP, generates no task
\* id and hands nothing to the dispatcher, whatever the node's plugins,
\* host_id and properties and the caller's kwargs are.
C2_AbsentOperationIsNop ==
    [][(/\ ncalls' = ncalls + 1
        /\ call'.api \in {"execute_operation", "_execute_operation"}
        /\ call'.operation \notin DOMAIN OperationsAt(plan, call'.operations))
       => (/\ ret'.kind = "NOP"
           /\ task_ids' = task_ids
           /\ dispatched' = dispatched)]_vars

\* NOP was returned to a caller whose kwargs collide with the node's
\* properties, on a node whose plugins table is empty.
C2_Witness ==
    /\ Resolved /\ ~Declared /\ ret.kind = "NOP"
    /\ DOMAIN call.kwargs \cap DOMAIN ActingProperties # {}
    /\ ActingRaw["plugins"] = EmptyDict

\* The non-runtime keys of the base property set of the latest call: none
\* when a related node is given, else those of the operation's declared
\* properties, else those of the acting node's properties.
BaseKeys ==
    IF call.related_node.kind # "NoneType"
    THEN {}
    ELSE IF "properties" \in DOMAIN CalledOpStruct
         THEN DOMAIN CalledOpStruct["properties"] \ {Runtime}
         ELSE DOMAIN ActingProperties \ {Runtime}

SharedKeys == BaseKeys \cap (DOMAIN call.kwargs \ {Runtime})

\* Lines 177-184 raise nothing on the latest call: the plugin is in the acting
\* node's plugins table and an agent plugin's node has a host_id.
QueueSelected ==
    /\ CalledOpStruct["plugin"] \in DOMAIN ActingRaw["plugins"]
    /\ CalledPlugin["agent_plugin"] = "true" => "host_id" \in DOMAIN ActingRaw

NothingBuilt == ret.kind = "error" /\ ret.context = EmptyDict /\ ret.task_id = 0

\* After a merge that did not raise, every key of either side other than
\* 'cloudify_runtime' is in the result with the value its side gave it.
MergeKeepsBothSides ==
    /\ DOMAIN ret.result = DOMAIN ret.dict1 \cup DOMAIN ret.dict2
    /\ \A k \in DOMAIN ret.dict1 \ {Runtime} : ret.result[k] = ret.dict1[k]
    /\ \A k \in DOMAIN ret.dict2 \ {Runtime} : ret.result[k] = ret.dict2[k]

\* C3 as claimed: whenever the base property set of a declared operation and
\* the kwargs share a key other than 'cloudify_runtime', resolution fails with
\* the 'Target map already contains key' RuntimeError and nothing is built or
\* dispatched; when they share none, the merge succeeds and keeps both sides.
C3_CollisionAlwaysTargetMapError ==
    (Resolved /\ Declared) =>
        /\ SharedKeys # {} => (NothingBuilt /\ ret.error = "RuntimeError")
        /\ (SharedKeys = {} /\ ret.merged) =>
               (ret.error # "RuntimeError" /\ MergeKeepsBothSides)

\* C3 amended: with a shared key, resolution always fails and nothing is built
\* or dispatched, and the error is the 'Target map already contains key'
\* RuntimeError whenever queue selection succeeded (otherwise its KeyError came
\* first); with no shared key the merge, when reached, succeeds and keeps both
\* sides.
C3_CollisionFailsResolution ==
    (Resolved /\ Declared) =>
        /\ SharedKeys # {} => NothingBuilt
        /\ (SharedKeys # {} /\ QueueSelected) => (ret.merged /\ ret.error = "RuntimeError")
        /\ (SharedKeys = {} /\ QueueSelected) => ret.merged
        /\ (SharedKeys = {} /\ ret.merged) =>
               (ret.error # "RuntimeError" /\ MergeKeepsBothSides)

\* The declared properties of an operation collided with the kwargs and the
\* caller got the RuntimeError.
C3_Witness ==
    /\ Resolved /\ Declared /\ QueueSelected
    /\ "properties" \in DOMAIN CalledOpStruct
    /\ SharedKeys = {"b"}
    /\ ret.error = "RuntimeError"

\* The runtime sub-maps of the two sides of the latest merge.
Runtime1 == Get(ret.dict1, Runtime, EmptyDict)
Runtime2 == Get(ret.dict2, Runtime, EmptyDict)
MergedRuntime == ret.merged /\ ret.error # "RuntimeError" /\ Runtime \in DOMAIN ret.dict1

\* A key shared by the two sides other than 'cloudify_runtime' is the only
\* thing that makes the merge raise.
RuntimeNeverCollides ==
    (ret.merged /\ ret.error = "RuntimeError") =>
        (DOMAIN ret.dict1 \cap DOMAIN ret.dict2) \ {Runtime} # {}

\* C4 as claimed: the merged 'cloudify_runtime' is the key union of the two
\* sub-maps with the kwargs' value on every sub-key both sides have, and a
\* shared 'cloudify_runtime' never raises.
C4_RuntimeUnionExtraWins ==
    /\ RuntimeNeverCollides
    /\ MergedRuntime =>
        /\ DOMAIN ret.result[Runtime] = DOMAIN Runtime1 \cup DOMAIN Runtime2
        /\ \A k \in DOMAIN Runtime1 \cap DOMAIN Runtime2 :
               ret.result[Runtime][k] = Runtime2[k]

\* C4 amended: the merged 'cloudify_runtime' is the key union of the two
\* sub-maps; a sub-key of the base side (dict1) keeps the base side's value,
\* also when the kwargs have it, and the kwargs' other sub-keys keep theirs;
\* a shared 'cloudify_runtime' never raises.
C4_RuntimeUnionDeclaredWins ==
    /\ RuntimeNeverCollides
    /\ MergedRuntime =>
        /\ DOMAIN ret.result[Runtime] = DOMAIN Runtime1 \cup DOMAIN Runtime2
        /\ \A k \in DOMAIN Runtime1 : ret.result[Runtime][k] = Runtime1[k]
        /\ \A k \in DOMAIN Runtime2 \ DOMAIN Runtime1 :
               ret.result[Runtime][k] = Runtime2[k]

\* A merge went through in which both sides had a 'cloudify_runtime' with a
\* sub-key in common under different values, and the kwargs a sub-key of
\* their own.
C4_Witness ==
    /\ MergedRuntime
    /\ \E k \in DOMAIN Runtime1 \cap DOMAIN Runtime2 : Runtime1[k] # Runtime2[k]
    /\ DOMAIN Runtime2 \ DOMAIN Runtime1 # {}

\* C5: no call changes the topology: node properties, operations tables and
\* the declared properties of every operation stay as they were built.
C5_InputsNeverMutated == plan = built

\* C6 as claimed: an envelope built for a call with a related node, on an
\* operation that declares no properties, has empty node_properties, and the
\* dispatched kwargs hold no key of the acting node's properties other than
\* 'cloudify_runtime'.
C6_NoActingPropertyKeys ==
    (Resolved /\ ret.kind = "task" /\ call.related_node.kind # "NoneType"
              /\ "properties" \notin DOMAIN CalledOpStruct) =>
        /\ ret.context["node_properties"] = EmptyDict
        /\ \A k \in DOMAIN ActingProperties \ {Runtime} : k \notin DOMAIN ret.kwargs

\* C6 amended: node_properties is empty, and a key of the acting node's
\* properties other than 'cloudify_runtime' and the two keys every dispatch
\* adds is in the dispatched kwargs only when the caller's kwargs have it, and
\* then with the caller's value.
C6_NoActingPropertyValues ==
    (Resolved /\ ret.kind = "task" /\ call.related_node.kind # "NoneType"
              /\ "properties" \notin DOMAIN CalledOpStruct) =>
        /\ ret.context["node_properties"] = EmptyDict
        /\ \A k \in DOMAIN ActingProperties
                      \ {Runtime, "__cloudify_id", "__cloudify_context"} :
               k \in DOMAIN ret.kwargs =>
                   (k \in DOMAIN call.kwargs /\ ret.kwargs[k] = call.kwargs[k])

\* A task was dispatched with a related node for an operation without
\* declared properties, on an acting node that has properties of its own.
C6_Witness ==
    /\ Resolved /\ ret.kind = "task" /\ call.related_node.kind # "NoneType"
    /\ "properties" \notin DOMAIN CalledOpStruct
    /\ "a" \in DOMAIN ActingProperties
    /\ Runtime \in DOMAIN ActingProperties
    /\ ret.context["node_properties"] = EmptyDict

\* C7: in every envelope, with or without a related node, node_properties has
\* neither '__cloudify_id' nor 'cloudify_runtime'; the acting node's
\* cloudify_runtime is what the envelope carries as capabilities, and the
\* related block's node_properties has no 'cloudify_runtime' either.
C7_EnvelopeSanitized ==
    (Resolved /\ ret.kind = "task") =>
        /\ "__cloudify_id" \notin DOMAIN ret.context["node_properties"]
        /\ Runtime \notin DOMAIN ret.context["node_properties"]
        /\ ret.context["capabilities"] = Get(ActingProperties, Runtime, EmptyDict)
        /\ call.related_node.kind # "NoneType" =>
               /\ "related" \in DOMAIN ret.context
               /\ Runtime \notin DOMAIN ret.context["related"]["node_properties"]
        /\ call.related_node.kind = "NoneType" => "related" \notin DOMAIN ret.context

\* An envelope was built from properties that held both '__cloudify_id' and a
\* non-empty 'cloudify_runtime'.
C7_Witness ==
    /\ Resolved /\ ret.kind = "task"
    /\ "__cloudify_id" \in DOMAIN ret.dict1
    /\ Runtime \in DOMAIN ret.dict1 /\ ret.dict1[Runtime] # EmptyDict
    /\ ret.context["node_properties"] = [b |-> 1]

\* The relationship the latest execute_relationship_operation call was made on.
CalledRelationship == built[call.node.owner]["relationships"][call.node.index]
ViaRelationship == call.api = "execute_relationship_operation"

\* C8: execute_relationship_operation on a declared operation of a
\* relationship whose target exists dispatches a task; with run_on_source the
\* acting node is the owner and the related node the target, without it the
\* acting node is the target and the related node the owner.
C8_RolesByDirection ==
    (/\ ViaRelationship
     /\ Declared
     /\ CalledRelationship["target_id"] \in DOMAIN plan) =>
        /\ ret.kind = "task"
        /\ ret.context["node_id"] =
               IF call.run_on_source THEN call.node.owner
                                     ELSE CalledRelationship["target_id"]
        /\ ret.context["related"]["node_id"] =
               IF call.run_on_source THEN CalledRelationship["target_id"]
                                     ELSE call.node.owner

C10_LoggerInitializedOnce ==
    /\ init_runs <= 1
    /\ \A t1, t2 \in Threads :
           (pc[t1] = "done" /\ pc[t2] = "done") => got[t1] = got[t2]

====
